---------------------------- MODULE Spec2Model ----------------------------
(***************************************************************************)
(* Model of the fetch-cache-and-aggregate engine of the Formula-1 wiki:    *)
(* the response cache and the rate limiter of services/api/cache.ts, the   *)
(* resource fetchers of services/api and the standings aggregator of       *)
(* services/standings.ts.                                                  *)
(*                                                                         *)
(* Three specifications share the module:                                  *)
(*   SpecCache  callers of getCachedOrFetch / clearCache, with producers   *)
(*              that take time and may reject;                             *)
(*   SpecRate   callers of rateLimitedApiCall, which may overlap;          *)
(*   Spec       runs of calculateStandings over the fetchers and the cache.*)
(* Time is in milliseconds, as Date.now() returns it.                      *)
(***************************************************************************)
EXTENDS Integers, Sequences, FiniteSets, TLC

VARIABLES
    now,          \* Date.now()
    cache,        \* cache.ts: const cache = new Map<string, CacheEntry>()
    ticks,        \* number of clock advances so far (bounds the run)
    \* ---- SpecCache: callers of getCachedOrFetch
    caller,       \* per caller: its position in getCachedOrFetch and its locals
    invoked,      \* per key: how many times a producer was invoked
    serial,       \* number of producer invocations so far (names the payloads)
    resolvedAt,   \* per key: time of the last resolved producer since the last clear
    retryDue,     \* per key: the last call rejected and nothing was stored since
    last,         \* the last event of the cache specification
    \* ---- SpecRate: callers of rateLimitedApiCall
    lastApiCall,  \* cache.ts: let lastApiCall = 0
    limiter,      \* per caller: its position in rateLimitedApiCall and its timer
    dispatched,   \* dispatch times of the thunks, in dispatch order
    \* ---- Spec: runs of calculateStandings
    st,           \* the run of calculateStandings: its position and its locals
    upstream      \* the upstream requests issued so far

cacheVars == <<caller, invoked, serial, resolvedAt, retryDue, last>>
rateVars  == <<lastApiCall, limiter, dispatched>>
runVars   == <<st, upstream>>

-----------------------------------------------------------------------------
(* Bounds of the model *)

StartTime == 1000000     \* Date.now() when the process starts
MaxTicks == 3            \* clock advances per behaviour
NCallers == 2            \* concurrent callers (async call chains)
MaxCalls == 3            \* getCachedOrFetch calls per behaviour
MaxRateCalls == 3        \* rateLimitedApiCall calls per behaviour
MaxSessions == 2         \* sessions in a sessions?year=Y response
MaxPositions == 2        \* records in a position?session_key=K response
MaxRoster == 2           \* drivers in a drivers?session_key=K response
MaxRequests == 6         \* upstream requests per behaviour
MaxRecords == 4          \* position records the upstream returns per behaviour
MaxMeetings == 3         \* meetings in a list circuits are derived from
MaxLineup == 3           \* drivers in a roster constructors are built from
MaxFinishers == 2        \* classified drivers in the race before the constructors are built

-----------------------------------------------------------------------------
(* cache.ts: constants and the cache map *)

CACHE_DURATION == 15 * 60 * 1000
MIN_API_INTERVAL == 350

None == [none |-> TRUE]

Callers == 1..NCallers

\* interface CacheEntry { data, timestamp }
CacheEntry(data, timestamp) == [data |-> data, timestamp |-> timestamp]

\* the test of getCachedOrFetch: cached && (now - cached.timestamp) < CACHE_DURATION
IsFresh(cached, t) == cached # None /\ (t - cached.timestamp) < CACHE_DURATION

\* cache.set(key, { data, timestamp })
CacheSet(c, key, data, timestamp) == [c EXCEPT ![key] = CacheEntry(data, timestamp)]

\* getCacheStats().totalEntries: cache.size
totalEntries(c) == Cardinality({k \in DOMAIN c : c[k] # None})


-----------------------------------------------------------------------------
(* SpecCache: getCachedOrFetch and clearCache under cooperative scheduling.  *)
(* A caller runs getCachedOrFetch up to its await in one step; the producer  *)
(* resolves or rejects in a later step, after any number of clock advances   *)
(* and of steps of the other callers.                                        *)

CacheKeys == {"k1", "k2"}

\* the clock advances the model takes: the latency of a producer, and the
\* pauses between calls (just under a TTL, a TTL)
Latency == 1000
ClockSteps == {Latency, CACHE_DURATION - Latency, CACHE_DURATION}

Idle == [pc |-> "idle"]

NoEvent == [op |-> "none"]

InitCache ==
    /\ now = StartTime
    /\ ticks = 0
    /\ cache = [k \in CacheKeys |-> None]
    /\ caller = [c \in Callers |-> Idle]
    /\ invoked = [k \in CacheKeys |-> 0]
    /\ serial = 0
    /\ resolvedAt = [k \in CacheKeys |-> None]
    /\ retryDue = [k \in CacheKeys |-> FALSE]
    /\ last = NoEvent
    /\ lastApiCall = 0
    /\ limiter = [c \in Callers |-> Idle]
    /\ dispatched = <<>>
    /\ st = Idle
    /\ upstream = NoEvent

\* a plausible slip: a miss on an expired entry deletes the entry
getCachedOrFetchEvicting(c, key) ==
    /\ caller[c].pc = "idle"
    /\ IF IsFresh(cache[key], now)
         THEN /\ last' = [op |-> "hit", key |-> key, caller |-> c,
                          data |-> cache[key].data]
              /\ UNCHANGED <<cache, caller, invoked, serial>>
         ELSE /\ serial < MaxCalls
              /\ serial' = serial + 1
              /\ invoked' = [invoked EXCEPT ![key] = @ + 1]
              /\ cache' = [cache EXCEPT ![key] = None]
              /\ caller' = [caller EXCEPT ![c] =
                              [pc |-> "fetching", key |-> key, now |-> now,
                               data |-> serial + 1, clean |-> TRUE,
                               cleared |-> FALSE]]
              /\ last' = [op |-> "miss", key |-> key, caller |-> c,
                          data |-> serial + 1]
    /\ UNCHANGED <<now, ticks, resolvedAt, retryDue, rateVars, runVars>>

\* getCachedOrFetch(key, fetchFn), from its entry to `return cached.data`
\* or to `await fetchFn()`
getCachedOrFetch(c, key) ==
    /\ caller[c].pc = "idle"
    /\ IF IsFresh(cache[key], now)
         THEN /\ last' = [op |-> "hit", key |-> key, caller |-> c,
                          data |-> cache[key].data]
              /\ UNCHANGED <<caller, invoked, serial>>
         ELSE /\ serial < MaxCalls
              /\ serial' = serial + 1
              /\ invoked' = [invoked EXCEPT ![key] = @ + 1]
              /\ caller' = [caller EXCEPT ![c] =
                              [pc |-> "fetching", key |-> key, now |-> now,
                               data |-> serial + 1, clean |-> TRUE,
                               cleared |-> FALSE]]
              /\ last' = [op |-> "miss", key |-> key, caller |-> c,
                          data |-> serial + 1]
    /\ UNCHANGED <<now, ticks, cache, resolvedAt, retryDue, rateVars, runVars>>

\* the producer resolves: cache.set(key, { data, timestamp: now }); return data
fetchFnResolves(c) ==
    /\ caller[c].pc = "fetching"
    /\ cache' = CacheSet(cache, caller[c].key, caller[c].data, caller[c].now)
    /\ caller' = [d \in Callers |->
                    IF d = c THEN Idle
                    ELSE IF caller[d].pc = "fetching" /\ caller[d].key = caller[c].key
                         THEN [caller[d] EXCEPT !.clean = FALSE]
                         ELSE caller[d]]
    /\ resolvedAt' = [resolvedAt EXCEPT ![caller[c].key] = [at |-> now]]
    /\ retryDue' = [retryDue EXCEPT ![caller[c].key] = FALSE]
    /\ last' = [op |-> "resolve", key |-> caller[c].key, caller |-> c,
                data |-> caller[c].data, cleared |-> caller[c].cleared]
    /\ UNCHANGED <<now, ticks, invoked, serial, rateVars, runVars>>

\* a plausible slip: the rejection is caught and memoized like a result
fetchFnRejectsAndStores(c) ==
    /\ caller[c].pc = "fetching"
    /\ cache' = CacheSet(cache, caller[c].key, 0, caller[c].now)
    /\ caller' = [caller EXCEPT ![c] = Idle]
    /\ retryDue' = [retryDue EXCEPT ![caller[c].key] = caller[c].clean]
    /\ last' = [op |-> "reject", key |-> caller[c].key, caller |-> c, data |-> 0]
    /\ UNCHANGED <<now, ticks, invoked, serial, resolvedAt, rateVars, runVars>>

\* the producer rejects: `await fetchFn()` throws, cache.set is not reached
fetchFnRejects(c) ==
    /\ caller[c].pc = "fetching"
    /\ caller' = [caller EXCEPT ![c] = Idle]
    /\ retryDue' = [retryDue EXCEPT ![caller[c].key] = caller[c].clean]
    /\ last' = [op |-> "reject", key |-> caller[c].key, caller |-> c, data |-> 0]
    /\ UNCHANGED <<now, ticks, cache, invoked, serial, resolvedAt, rateVars, runVars>>

\* clearCache(): cache.clear()
clearCache ==
    /\ cache' = [k \in DOMAIN cache |-> None]
    /\ resolvedAt' = [k \in CacheKeys |-> None]
    /\ caller' = [c \in Callers |->
                    IF caller[c].pc = "fetching"
                      THEN [caller[c] EXCEPT !.cleared = TRUE]
                      ELSE caller[c]]
    /\ last' = [op |-> "clear"]
    /\ UNCHANGED <<now, ticks, invoked, serial, retryDue, rateVars, runVars>>

\* the clock advances while every caller is suspended or idle; a producer in
\* flight is bounded by the request timeout (client.ts: timeout 10000), so
\* the long pauses happen between calls
CacheTick(d) ==
    /\ ticks < MaxTicks
    /\ d > Latency => \A c \in Callers : caller[c].pc = "idle"
    /\ ticks' = ticks + 1
    /\ now' = now + d
    /\ last' = [op |-> "tick"]
    /\ UNCHANGED <<cache, caller, invoked, serial, resolvedAt, retryDue, rateVars, runVars>>

NextCache ==
    \/ \E c \in Callers, key \in CacheKeys : getCachedOrFetch(c, key)
    \/ \E c \in Callers : fetchFnResolves(c)
    \/ \E c \in Callers : fetchFnRejects(c)
    \/ clearCache
    \/ \E d \in ClockSteps : CacheTick(d)

vars == <<now, cache, ticks, cacheVars, rateVars, runVars>>

SpecCache == InitCache /\ [][NextCache]_vars


-----------------------------------------------------------------------------
(* Claims about the response cache (SpecCache) *)

\* C1: once a call for key k has resolved, a call for k made less than
\* CACHE_DURATION after that resolution is served from the cache without
\* invoking the producer, and a call that is served from the cache was made
\* less than CACHE_DURATION after the resolution (after the TTL the producer
\* runs again).
C1_CacheIdempotence ==
    /\ (last.op = "miss" /\ resolvedAt[last.key] # None)
          => now - resolvedAt[last.key].at >= CACHE_DURATION
    /\ (last.op = "hit" /\ resolvedAt[last.key] # None)
          => now - resolvedAt[last.key].at < CACHE_DURATION

\* C2: a rejecting producer stores nothing (the step in which the rejection
\* reaches the caller leaves the cache map as it was), and the next call for
\* the key invokes its producer again instead of being served from the cache.
C2_FailureNotMemoized ==
    /\ [][(last' # last /\ last'.op = "reject") => cache' = cache]_vars
    /\ [](last.op = "hit" => ~retryDue[last.key])

\* C2 witness: a producer rejected and the next call for the key ran its producer
C2_Witness == last.op = "miss" /\ retryDue[last.key]

\* C25: getCacheStats().totalEntries is the number of distinct keys for which
\* a producer has resolved since the last clearCache (one entry per key,
\* overwritten by a refresh, kept after its expiry), and it is 0 right after
\* clearCache.
C25_EntryCount ==
    /\ totalEntries(cache) = Cardinality({k \in CacheKeys : resolvedAt[k] # None})
    /\ \A k \in CacheKeys : (cache[k] # None) = (resolvedAt[k] # None)
    /\ last.op = "clear" => totalEntries(cache) = 0

\* C25 witness: two entries are counted, one of them expired, and the expired
\* one is being refreshed
C25_Witness ==
    /\ totalEntries(cache) = 2
    /\ \E c \in Callers :
          /\ caller[c].pc = "fetching"
          /\ ~IsFresh(cache[caller[c].key], now)


-----------------------------------------------------------------------------
(* SpecRate: rateLimitedApiCall under cooperative scheduling.  A caller runs *)
(* the function up to its await (or, without a wait, to the dispatch of the  *)
(* thunk) in one step; a suspended caller resumes once its timer has fired.  *)

RateSteps == {100, MIN_API_INTERVAL}

InitRate ==
    /\ now = StartTime
    /\ ticks = 0
    /\ cache = [k \in CacheKeys |-> None]
    /\ caller = [c \in Callers |-> Idle]
    /\ invoked = [k \in CacheKeys |-> 0]
    /\ serial = 0
    /\ resolvedAt = [k \in CacheKeys |-> None]
    /\ retryDue = [k \in CacheKeys |-> FALSE]
    /\ last = NoEvent
    /\ lastApiCall = 0
    /\ limiter = [c \in Callers |-> Idle]
    /\ dispatched = <<>>
    /\ st = Idle
    /\ upstream = NoEvent

\* a plausible slip: the wait is the whole interval, whatever time has passed
RateDelayWhole(timeSinceLastCall) == MIN_API_INTERVAL

\* the timeout rateLimitedApiCall asks for: MIN_API_INTERVAL - timeSinceLastCall
RateDelay(timeSinceLastCall) == MIN_API_INTERVAL - timeSinceLastCall

\* lastApiCall = Date.now(); return apiCall()
Dispatch(c, elapsed, waited) ==
    /\ lastApiCall' = now
    /\ dispatched' = Append(dispatched, [caller |-> c, at |-> now,
                                         elapsed |-> elapsed, waited |-> waited])
    /\ limiter' = [limiter EXCEPT ![c] = Idle]

\* rateLimitedApiCall(apiCall), from its entry to the await of the timer or,
\* when enough time has passed, to the dispatch of the thunk
rateLimitedApiCall(c) ==
    /\ limiter[c].pc = "idle"
    /\ Len(dispatched) + Cardinality({d \in Callers : limiter[d].pc = "waiting"})
          < MaxRateCalls
    /\ LET timeSinceLastCall == now - lastApiCall IN
         IF timeSinceLastCall < MIN_API_INTERVAL
           THEN /\ limiter' = [limiter EXCEPT ![c] =
                                 [pc |-> "waiting", called |-> now,
                                  elapsed |-> timeSinceLastCall,
                                  wake |-> now + RateDelay(timeSinceLastCall)]]
                /\ UNCHANGED <<lastApiCall, dispatched>>
           ELSE Dispatch(c, timeSinceLastCall, 0)
    /\ UNCHANGED <<now, ticks, cache, cacheVars, runVars>>

\* the timer of a suspended caller has fired: the caller resumes after the await
rateLimitedApiCallResume(c) ==
    /\ limiter[c].pc = "waiting"
    /\ now >= limiter[c].wake
    /\ Dispatch(c, limiter[c].elapsed, now - limiter[c].called)
    /\ UNCHANGED <<now, ticks, cache, cacheVars, runVars>>

\* the clock advances; a timer never fires early, and fires as soon as the
\* event loop is free, so the clock does not pass a pending deadline: it
\* advances by d, or to the earliest deadline when that comes first
RateTick(d) ==
    LET due == {limiter[c].wake : c \in {e \in Callers : limiter[e].pc = "waiting"}} IN
    /\ ticks < MaxTicks
    /\ \A w \in due : now < w
    /\ ticks' = ticks + 1
    /\ now' = IF \E w \in due : w < now + d
               THEN CHOOSE w \in due : \A v \in due : w <= v
               ELSE now + d
    /\ UNCHANGED <<cache, cacheVars, rateVars, runVars>>

NextRate ==
    \/ \E c \in Callers : rateLimitedApiCall(c)
    \/ \E c \in Callers : rateLimitedApiCallResume(c)
    \/ \E d \in RateSteps : RateTick(d)

SpecRate == InitRate /\ [][NextRate]_vars

\* C3: the dispatch times of any two thunks differ by at least MIN_API_INTERVAL
C3_RateSpacing ==
    \A i, j \in 1..Len(dispatched) :
        i < j => dispatched[j].at - dispatched[i].at >= MIN_API_INTERVAL

\* max(0, MIN_API_INTERVAL - elapsed)
WaitFor(elapsed) ==
    IF MIN_API_INTERVAL - elapsed > 0 THEN MIN_API_INTERVAL - elapsed ELSE 0

\* C24: the wait before a thunk is dispatched is max(0, 350 - time elapsed
\* since lastApiCall at the call): a suspended caller's timer is set to that
\* wait, a call made 350 ms or more after the last dispatch (the first call of
\* the process among them) dispatches without waiting, and no thunk is
\* dispatched more than 350 ms after its call.
C24_ExactWait ==
    /\ \A i \in 1..Len(dispatched) :
          /\ dispatched[i].waited = WaitFor(dispatched[i].elapsed)
          /\ dispatched[i].waited <= MIN_API_INTERVAL
          /\ dispatched[i].elapsed >= MIN_API_INTERVAL => dispatched[i].waited = 0
    /\ Len(dispatched) > 0 => dispatched[1].waited = 0
    /\ \A c \in Callers :
          limiter[c].pc = "waiting" =>
              /\ limiter[c].wake - limiter[c].called = WaitFor(limiter[c].elapsed)
              /\ now <= limiter[c].wake

\* C24 witness: a second call made 100 ms after the first dispatch was
\* dispatched after 250 ms, a later one without waiting
C24_Witness ==
    /\ Len(dispatched) = 3
    /\ dispatched[2].elapsed = 100 /\ dispatched[2].waited = 250
    /\ dispatched[3].elapsed >= MIN_API_INTERVAL /\ dispatched[3].waited = 0


-----------------------------------------------------------------------------
(* services/standings.ts: the pure part of calculateStandings *)

F1_POINTS_SYSTEM == <<25, 18, 15, 12, 10, 8, 6, 4, 2, 1>>

\* F1_POINTS_SYSTEM[index] || 0, index counted from zero
PointsAt(index) ==
    IF index < Len(F1_POINTS_SYSTEM) THEN F1_POINTS_SYSTEM[index + 1] ELSE 0

\* (a, b) => a.position - b.position
ComparePosition(a, b) == a.position - b.position

\* a plausible slip: the tie-break on wins is left out
CompareStandingsPointsOnly(a, b) == b.points - a.points

\* (a, b) => { if (b.points !== a.points) return b.points - a.points
\*             return b.wins - a.wins }
CompareStandings(a, b) ==
    IF b.points # a.points THEN b.points - a.points ELSE b.wins - a.wins

\* the place of element i in the sorted array: after every element that
\* compares smaller and after the equal elements that precede it
\* (Array.prototype.sort is stable)
RankByPosition(s, i) ==
    1 + Cardinality({j \in 1..Len(s) :
            \/ ComparePosition(s[j], s[i]) < 0
            \/ ComparePosition(s[j], s[i]) = 0 /\ j < i})

\* positions.filter(pos => pos.position > 0).sort((a, b) => a.position - b.position)
sortedPositions(positions) ==
    LET valid == SelectSeq(positions, LAMBDA pos : pos.position > 0) IN
    [r \in 1..Len(valid) |-> valid[CHOOSE i \in 1..Len(valid) : RankByPosition(valid, i) = r]]

\* a sort that is not stable: equal elements end in reverse order
RankStandingsUnstable(s, i) ==
    1 + Cardinality({j \in 1..Len(s) :
            \/ CompareStandings(s[j], s[i]) < 0
            \/ CompareStandings(s[j], s[i]) = 0 /\ j > i})

\* the place of entry i after .sort(CompareStandings), a stable sort
RankStandings(s, i) ==
    1 + Cardinality({j \in 1..Len(s) :
            \/ CompareStandings(s[j], s[i]) < 0
            \/ CompareStandings(s[j], s[i]) = 0 /\ j < i})

\* entries.sort((a, b) => ...) of the driver and the constructor standings
sortStandings(s) ==
    [r \in 1..Len(s) |-> s[CHOOSE i \in 1..Len(s) : RankStandings(s, i) = r]]

\* allDrivers.find(d => d.driver_number === n): index of the first match, 0 if none
FindDriver(allDrivers, n) ==
    IF \E i \in 1..Len(allDrivers) : allDrivers[i].driver_number = n
      THEN CHOOSE i \in 1..Len(allDrivers) :
              /\ allDrivers[i].driver_number = n
              /\ \A j \in 1..(i - 1) : allDrivers[j].driver_number # n
      ELSE 0

\* Step 4: the four maps, every driver and every team of the roster at 0
InitialTotals(allDrivers) ==
    LET numbers == {allDrivers[i].driver_number : i \in 1..Len(allDrivers)}
        teams == {allDrivers[i].team_name : i \in 1..Len(allDrivers)} IN
    [driverPoints |-> [n \in numbers |-> 0],
     constructorPoints |-> [t \in teams |-> 0],
     driverWins |-> [n \in numbers |-> 0],
     constructorWins |-> [t \in teams |-> 0]]

\* a plausible slip: a win is counted for the driver and not for the team
AwardPositionDriverWin(allDrivers, totals, pos, index) ==
    LET d == FindDriver(allDrivers, pos.driver_number) IN
    IF d = 0 THEN totals
    ELSE
      LET team == allDrivers[d].team_name
          points == PointsAt(index)
          withPoints ==
            IF points > 0
              THEN [totals EXCEPT !.driverPoints[pos.driver_number] = @ + points,
                                  !.constructorPoints[team] = @ + points]
              ELSE totals
      IN IF pos.position = 1
           THEN [withPoints EXCEPT !.driverWins[pos.driver_number] = @ + 1]
           ELSE withPoints

\* the body of sortedPositions.forEach((pos, index) => ...), index from zero
AwardPosition(allDrivers, totals, pos, index) ==
    LET d == FindDriver(allDrivers, pos.driver_number) IN
    IF d = 0 THEN totals
    ELSE
      LET team == allDrivers[d].team_name
          points == PointsAt(index)
          withPoints ==
            IF points > 0
              THEN [totals EXCEPT !.driverPoints[pos.driver_number] = @ + points,
                                  !.constructorPoints[team] = @ + points]
              ELSE totals
      IN IF pos.position = 1
           THEN [withPoints EXCEPT !.driverWins[pos.driver_number] = @ + 1,
                                   !.constructorWins[team] = @ + 1]
           ELSE withPoints

RECURSIVE ForEachPosition(_, _, _, _)
\* sortedPositions.forEach(...), from the element at `index` (from zero) on
ForEachPosition(allDrivers, totals, sorted, index) ==
    IF index >= Len(sorted) THEN totals
    ELSE ForEachPosition(allDrivers,
                         AwardPosition(allDrivers, totals, sorted[index + 1], index),
                         sorted, index + 1)

\* one iteration of the loop over completedRaces with the positions fetched
ProcessPositions(allDrivers, totals, positions) ==
    IF Len(positions) = 0 THEN totals
    ELSE ForEachPosition(allDrivers, totals, sortedPositions(positions), 0)

\* a plausible slip: the standings are built from the drivers that scored
driverStandingsOfScorers(allDrivers, totals) ==
    LET scorers == SelectSeq(allDrivers,
                      LAMBDA d : totals.driverPoints[d.driver_number] > 0) IN
    sortStandings([i \in 1..Len(scorers) |->
        [driver_number |-> scorers[i].driver_number,
         team_name |-> scorers[i].team_name,
         points |-> totals.driverPoints[scorers[i].driver_number],
         wins |-> totals.driverWins[scorers[i].driver_number]]])

\* Step 6: allDrivers.map(driver => ({...driver, points, wins})).sort(...)
driverStandings(allDrivers, totals) ==
    sortStandings([i \in 1..Len(allDrivers) |->
        [driver_number |-> allDrivers[i].driver_number,
         team_name |-> allDrivers[i].team_name,
         points |-> totals.driverPoints[allDrivers[i].driver_number],
         wins |-> totals.driverWins[allDrivers[i].driver_number]]])

\* Array.from(new Set(allDrivers.map(d => d.team_name))): first appearances
TeamNames(allDrivers) ==
    LET firsts == SelectSeq([i \in 1..Len(allDrivers) |-> i],
                    LAMBDA i : \A j \in 1..(i - 1) :
                                  allDrivers[j].team_name # allDrivers[i].team_name)
    IN [k \in 1..Len(firsts) |-> allDrivers[firsts[k]].team_name]

\* a plausible slip: the colour is read from the last driver of the team
teamColourOfLast(teamDrivers) ==
    IF /\ Len(teamDrivers) > 0
       /\ "team_colour" \in DOMAIN teamDrivers[Len(teamDrivers)]
       /\ teamDrivers[Len(teamDrivers)].team_colour # ""
      THEN teamDrivers[Len(teamDrivers)].team_colour
      ELSE "000000"

\* teamDrivers[0]?.team_colour || '000000': a missing first driver, a record
\* without the field and the empty string are all falsy
teamColour(teamDrivers) ==
    IF /\ Len(teamDrivers) > 0
       /\ "team_colour" \in DOMAIN teamDrivers[1]
       /\ teamDrivers[1].team_colour # ""
      THEN teamDrivers[1].team_colour
      ELSE "000000"

\* Step 7: one entry per team name, then the same sort
constructorStandings(allDrivers, totals) ==
    LET names == TeamNames(allDrivers) IN
    sortStandings([k \in 1..Len(names) |->
        [name |-> names[k],
         colour |-> teamColour(SelectSeq(allDrivers, LAMBDA d : d.team_name = names[k])),
         drivers |-> SelectSeq(allDrivers, LAMBDA d : d.team_name = names[k]),
         points |-> totals.constructorPoints[names[k]],
         wins |-> totals.constructorWins[names[k]]]])


-----------------------------------------------------------------------------
(* Spec: calculateStandings over the fetchers, the cache and the upstream.   *)
(* One caller runs calculateStandings, one await after the other; a request  *)
(* to the upstream answers with a list of records or fails.                  *)

Year == 2025
RACE_DELAY == 400
NoDate == 0

\* date_end of a session that is over when the process starts, and of one
\* that ends a TTL later
PastDate == StartTime - CACHE_DURATION
FutureDate == StartTime + CACHE_DURATION

DriverNumbers == {1, 2}
Teams == {"X", "Y"}
PositionValues == {0, 1, 2, 12}
MeetingKeys == {1, 2}
MeetingSessionKeys == {7, 9}

StandingsKey == <<"calculated-standings", Year>>
RaceSessionsKey == <<"race-sessions", Year>>
MeetingsKey == <<"meetings-year", Year>>
DriversKey == <<"drivers-year", Year>>
MeetingSessionsKey(meetingKey) == <<"sessions-meeting", meetingKey>>
PositionsKey(sessionKey) == <<"positions", sessionKey>>

StandingsKeys ==
    {StandingsKey, RaceSessionsKey, MeetingsKey, DriversKey}
      \cup {MeetingSessionsKey(m) : m \in MeetingKeys}
      \cup {PositionsKey(k) : k \in 1..MaxSessions}

\* the sequences over S of length at most n
SeqsUpTo(S, n) == UNION {[1..k -> S] : k \in 0..n}

\* what a request returns: response.data, or a failure (network, timeout, non-2xx)
Ok(data) == [ok |-> TRUE, data |-> data]
Failure == [ok |-> FALSE]

\* sessions?year=Y: the session at place i has session_key i
SessionKinds == {<<"Race", "Race">>, <<"Sprint", "Race">>, <<"Practice 1", "Practice">>}
DateEnds == {NoDate, PastDate, FutureDate}
YearSessionLists ==
    {[i \in DOMAIN l |-> [session_key |-> i, session_name |-> l[i][1][1],
                          session_type |-> l[i][1][2], date_end |-> l[i][2]]] :
        l \in SeqsUpTo(SessionKinds \X DateEnds, MaxSessions)}

\* position?session_key=K
PositionLists ==
    SeqsUpTo([driver_number : DriverNumbers, position : PositionValues], MaxPositions)

\* drivers?session_key=K: driver numbers are unique within a session
Rosters ==
    {r \in SeqsUpTo([driver_number : DriverNumbers, team_name : Teams], MaxRoster) :
        \A i, j \in DOMAIN r : i # j => r[i].driver_number # r[j].driver_number}

\* meetings?year=Y and sessions?meeting_key=K, as the run of the aggregator sees them
MeetingLists == {<<>>, <<[meeting_key |-> 1], [meeting_key |-> 2]>>}
MeetingSessionLists == {<<>>, <<[session_key |-> 7], [session_key |-> 9]>>}

\* every response a request may get: one of the lists, or a failure (the test
\* of the cardinality makes TLC enumerate the set where it is defined, once,
\* before the workers share it)
Responses(lists) ==
    LET all == {Ok(l) : l \in lists} \cup {Failure} IN
    IF Cardinality(all) > 0 THEN all ELSE {}

\* a plausible slip: the filter looks at session_type alone
FilterRaceSessionsByType(sessions) ==
    SelectSeq(sessions, LAMBDA session : session.session_type = "Race")

\* response.data.filter(session => session.session_name === 'Race' &&
\*                                  session.session_type === 'Race')
FilterRaceSessions(sessions) ==
    SelectSeq(sessions, LAMBDA session :
        session.session_name = "Race" /\ session.session_type = "Race")

\* a plausible slip: every race session that has a date_end counts as completed
CompletedRacesDated(raceSessions, t) ==
    SelectSeq(raceSessions, LAMBDA session : session.date_end # NoDate)

\* raceSessions.filter(session => session.date_end && new Date(session.date_end) < now)
CompletedRaces(raceSessions, t) ==
    SelectSeq(raceSessions, LAMBDA session :
        session.date_end # NoDate /\ session.date_end < t)

\* the time at which rateLimitedApiCall, entered at t, dispatches its thunk
DispatchTime(t, lastCall) ==
    IF t - lastCall < MIN_API_INTERVAL THEN t + RateDelay(t - lastCall) ELSE t

InitRun ==
    [pc |-> "idle", now0 |-> 0, entry0 |-> None, fromCache |-> FALSE,
     cause |-> "none",
     raceSessions |-> <<>>, completedRaces |-> <<>>, computedAt |-> 0,
     driversNow |-> 0, latestMeeting |-> 0, latestSession |-> 0,
     allDrivers |-> <<>>, totals |-> InitialTotals(<<>>), index |-> 0,
     races |-> <<>>, result |-> None]

Init ==
    /\ now = StartTime
    /\ ticks = 0
    /\ cache = [k \in StandingsKeys |-> None]
    /\ caller = [c \in Callers |-> Idle]
    /\ invoked = [k \in CacheKeys |-> 0]
    /\ serial = 0
    /\ resolvedAt = [k \in CacheKeys |-> None]
    /\ retryDue = [k \in CacheKeys |-> FALSE]
    /\ last = NoEvent
    /\ lastApiCall = 0
    /\ limiter = [c \in Callers |-> Idle]
    /\ dispatched = <<>>
    /\ st = InitRun
    /\ upstream = [requests |-> 0, records |-> 0, lastSessions |-> "none"]

\* `throw error` out of the producer of calculateStandings: the promise rejects
Rejected(s, cause) == [s EXCEPT !.pc = "rejected", !.cause = cause]

\* calculateStandings(year): getCachedOrFetch(cacheKey, ...) up to the first await
calculateStandings ==
    /\ st.pc = "idle"
    /\ IF IsFresh(cache[StandingsKey], now)
         THEN st' = [st EXCEPT !.pc = "resolved", !.fromCache = TRUE,
                               !.result = cache[StandingsKey].data]
         ELSE st' = [st EXCEPT !.pc = "sessions", !.now0 = now,
                               !.entry0 = cache[StandingsKey]]
    /\ UNCHANGED <<now, ticks, cache, cacheVars, rateVars, upstream>>


\* one more request goes to the upstream
Requested(u) == [u EXCEPT !.requests = @ + 1]

\* a plausible slip: the check for an empty list of race sessions is left out
AfterRaceSessionsUnchecked(s, raceSessions, t) ==
    [s EXCEPT !.pc = "drivers",
              !.raceSessions = raceSessions,
              !.completedRaces = CompletedRaces(raceSessions, t),
              !.computedAt = t]

\* Steps 1 and 2 of calculateStandings, with the race sessions obtained at t
AfterRaceSessions(s, raceSessions, t) ==
    IF Len(raceSessions) = 0
      THEN Rejected(s, "no-sessions")
      ELSE [s EXCEPT !.pc = "drivers",
                     !.raceSessions = raceSessions,
                     !.completedRaces = CompletedRaces(raceSessions, t),
                     !.computedAt = t]

\* getRaceSessionsByYear(year), awaited by calculateStandings: a fresh entry is
\* returned; otherwise the rate-limited request is made, a failure is caught
\* and turned into [], and what the producer returns is stored under the key
getRaceSessionsByYear(responses) ==
    /\ st.pc = "sessions"
    /\ IF IsFresh(cache[RaceSessionsKey], now)
         THEN /\ st' = AfterRaceSessions(st, cache[RaceSessionsKey].data, now)
              /\ UNCHANGED <<now, cache, lastApiCall, upstream>>
         ELSE \E resp \in responses :
              LET t == DispatchTime(now, lastApiCall)
                  raceSessions == IF resp.ok THEN FilterRaceSessions(resp.data)
                                  ELSE <<>>
              IN /\ upstream.requests < MaxRequests
                 /\ upstream' = [Requested(upstream) EXCEPT
                                   !.lastSessions = IF resp.ok THEN "ok" ELSE "failed"]
                 /\ now' = t
                 /\ lastApiCall' = t
                 /\ cache' = CacheSet(cache, RaceSessionsKey, raceSessions, now)
                 /\ st' = AfterRaceSessions(st, raceSessions, t)
    /\ UNCHANGED <<ticks, cacheVars, limiter, dispatched>>

\* Step 4 of calculateStandings, with the roster getDrivers returned
AfterDrivers(s, allDrivers) ==
    [s EXCEPT !.pc = "races", !.allDrivers = allDrivers,
              !.totals = InitialTotals(allDrivers), !.index = 0]

\* getDrivers(undefined, year), awaited by calculateStandings, up to its first
\* await: a fresh entry is returned, otherwise the chain of lookups starts
getDrivers ==
    /\ st.pc = "drivers"
    /\ IF IsFresh(cache[DriversKey], now)
         THEN st' = AfterDrivers(st, cache[DriversKey].data)
         ELSE st' = [st EXCEPT !.pc = "meetings", !.driversNow = now]
    /\ UNCHANGED <<now, ticks, cache, cacheVars, rateVars, upstream>>

\* getDrivers after getMeetingsByYear: no meetings is an error, else the last
\* meeting of the list is taken
AfterMeetings(s, meetings) ==
    IF Len(meetings) = 0
      THEN Rejected(s, "roster")
      ELSE [s EXCEPT !.pc = "meetingSessions",
                     !.latestMeeting = meetings[Len(meetings)].meeting_key]

\* getMeetingsByYear(year), awaited by getDrivers: a failure of the request is
\* rethrown, which getDrivers rethrows, which rejects calculateStandings
getMeetingsByYear(responses) ==
    /\ st.pc = "meetings"
    /\ IF IsFresh(cache[MeetingsKey], now)
         THEN /\ st' = AfterMeetings(st, cache[MeetingsKey].data)
              /\ UNCHANGED <<now, cache, lastApiCall, upstream>>
         ELSE \E resp \in responses :
              LET t == DispatchTime(now, lastApiCall) IN
                 /\ upstream.requests < MaxRequests
                 /\ upstream' = Requested(upstream)
                 /\ now' = t
                 /\ lastApiCall' = t
                 /\ IF resp.ok
                      THEN /\ cache' = CacheSet(cache, MeetingsKey, resp.data, now)
                           /\ st' = AfterMeetings(st, resp.data)
                      ELSE /\ cache' = cache
                           /\ st' = Rejected(st, "roster")
    /\ UNCHANGED <<ticks, cacheVars, limiter, dispatched>>

\* getDrivers after getSessionsByMeeting: no sessions is an error, else the last
\* session of the list is taken
AfterMeetingSessions(s, sessions) ==
    IF Len(sessions) = 0
      THEN Rejected(s, "roster")
      ELSE [s EXCEPT !.pc = "driversRequest",
                     !.latestSession = sessions[Len(sessions)].session_key]

\* getSessionsByMeeting(latestMeeting.meeting_key), awaited by getDrivers
getSessionsByMeeting(responses) ==
    /\ st.pc = "meetingSessions"
    /\ LET key == MeetingSessionsKey(st.latestMeeting) IN
       IF IsFresh(cache[key], now)
         THEN /\ st' = AfterMeetingSessions(st, cache[key].data)
              /\ UNCHANGED <<now, cache, lastApiCall, upstream>>
         ELSE \E resp \in responses :
              LET t == DispatchTime(now, lastApiCall) IN
                 /\ upstream.requests < MaxRequests
                 /\ upstream' = Requested(upstream)
                 /\ now' = t
                 /\ lastApiCall' = t
                 /\ IF resp.ok
                      THEN /\ cache' = CacheSet(cache, key, resp.data, now)
                           /\ st' = AfterMeetingSessions(st, resp.data)
                      ELSE /\ cache' = cache
                           /\ st' = Rejected(st, "roster")
    /\ UNCHANGED <<ticks, cacheVars, limiter, dispatched>>

\* a plausible slip: a failed drivers request leaves an empty roster in the cache
getDriversResponseStoring(responses) ==
    /\ st.pc = "driversRequest"
    /\ \E resp \in responses :
       LET t == DispatchTime(now, lastApiCall) IN
          /\ upstream.requests < MaxRequests
          /\ upstream' = Requested(upstream)
          /\ now' = t
          /\ lastApiCall' = t
          /\ IF resp.ok
               THEN /\ cache' = CacheSet(cache, DriversKey, resp.data, st.driversNow)
                    /\ st' = AfterDrivers(st, resp.data)
               ELSE /\ cache' = CacheSet(cache, DriversKey, <<>>, st.driversNow)
                    /\ st' = Rejected(st, "roster")
    /\ UNCHANGED <<ticks, cacheVars, limiter, dispatched>>

\* the rate-limited request drivers?session_key=K that ends the chain: its data
\* is what the producer of getDrivers returns and the cache stores
getDriversResponse(responses) ==
    /\ st.pc = "driversRequest"
    /\ \E resp \in responses :
       LET t == DispatchTime(now, lastApiCall) IN
          /\ upstream.requests < MaxRequests
          /\ upstream' = Requested(upstream)
          /\ now' = t
          /\ lastApiCall' = t
          /\ IF resp.ok
               THEN /\ cache' = CacheSet(cache, DriversKey, resp.data, st.driversNow)
                    /\ st' = AfterDrivers(st, resp.data)
               ELSE /\ cache' = cache
                    /\ st' = Rejected(st, "roster")
    /\ UNCHANGED <<ticks, cacheVars, limiter, dispatched>>


\* how the loop of Step 5 takes what getPositions gave for a race
RaceOutcome(fetched) ==
    IF ~fetched.ok THEN "failed"
    ELSE IF Len(fetched.data) = 0 THEN "empty" ELSE "ok"

\* the record the model keeps of an iteration of the loop
RaceRecord(raceSession, fetched) ==
    [session_key |-> raceSession.session_key,
     outcome |-> RaceOutcome(fetched),
     positions |-> IF fetched.ok THEN fetched.data ELSE <<>>]

\* a plausible slip: the failure of getPositions is not caught in the loop
AfterPositionsUncaught(s, raceSession, fetched) ==
    IF ~fetched.ok
      THEN [Rejected(s, "positions") EXCEPT
              !.races = Append(@, RaceRecord(raceSession, fetched))]
      ELSE [s EXCEPT !.index = @ + 1,
                     !.totals = ProcessPositions(s.allDrivers, @, fetched.data),
                     !.races = Append(@, RaceRecord(raceSession, fetched))]

\* one iteration of the loop of Step 5: a failed fetch is caught and the race
\* skipped, an empty list is skipped, otherwise the positions are awarded
AfterPositions(s, raceSession, fetched) ==
    [s EXCEPT !.index = @ + 1,
              !.totals = IF RaceOutcome(fetched) = "ok"
                           THEN ProcessPositions(s.allDrivers, @, fetched.data)
                           ELSE @,
              !.races = Append(@, RaceRecord(raceSession, fetched))]

\* an iteration of `for (const raceSession of completedRaces)`: the 400 ms
\* wait, then getPositions(raceSession.session_key), not rate limited, whose
\* failure is rethrown to the loop and whose data is stored under its key
processRace(responses) ==
    /\ st.pc = "races"
    /\ st.index < Len(st.completedRaces)
    /\ LET raceSession == st.completedRaces[st.index + 1]
           key == PositionsKey(raceSession.session_key)
           t == now + RACE_DELAY
       IN /\ now' = t
          /\ IF IsFresh(cache[key], t)
               THEN /\ st' = AfterPositions(st, raceSession, Ok(cache[key].data))
                    /\ UNCHANGED <<cache, upstream>>
               ELSE \E resp \in responses :
                      LET records == IF resp.ok THEN Len(resp.data) ELSE 0 IN
                      /\ upstream.requests < MaxRequests
                      /\ upstream.records + records <= MaxRecords
                      /\ upstream' = [Requested(upstream) EXCEPT !.records = @ + records]
                      /\ cache' = IF resp.ok THEN CacheSet(cache, key, resp.data, t)
                                  ELSE cache
                      /\ st' = AfterPositions(st, raceSession, resp)
    /\ UNCHANGED <<ticks, cacheVars, rateVars>>

\* a plausible slip: completedRaces counts the races whose positions were retrieved
StandingsResultOfRetrieved(s, t) ==
    [drivers |-> driverStandings(s.allDrivers, s.totals),
     constructors |-> constructorStandings(s.allDrivers, s.totals),
     totalRaces |-> Len(s.raceSessions),
     completedRaces |-> Len(SelectSeq(s.races, LAMBDA r : r.outcome = "ok")),
     upcomingRaces |-> Len(s.raceSessions) - Len(s.completedRaces),
     lastUpdated |-> t]

\* the object calculateStandings returns
StandingsResult(s, t) ==
    [drivers |-> driverStandings(s.allDrivers, s.totals),
     constructors |-> constructorStandings(s.allDrivers, s.totals),
     totalRaces |-> Len(s.raceSessions),
     completedRaces |-> Len(s.completedRaces),
     upcomingRaces |-> Len(s.raceSessions) - Len(s.completedRaces),
     lastUpdated |-> t]

\* Steps 6 and 7 and the return: the producer resolves, getCachedOrFetch
\* stores the result with the `now` it read on entry and returns it
returnStandings ==
    /\ st.pc = "races"
    /\ st.index >= Len(st.completedRaces)
    /\ LET result == StandingsResult(st, now) IN
          /\ cache' = CacheSet(cache, StandingsKey, result, st.now0)
          /\ st' = [st EXCEPT !.pc = "resolved", !.result = result]
    /\ UNCHANGED <<now, ticks, cacheVars, rateVars, upstream>>

\* a run of calculateStandings on the cache of a process that just started,
\* over everything the upstream may answer within the bounds
Next ==
    \/ calculateStandings
    \/ getRaceSessionsByYear(Responses(YearSessionLists))
    \/ getDrivers
    \/ getMeetingsByYear(Responses(MeetingLists))
    \/ getSessionsByMeeting(Responses(MeetingSessionLists))
    \/ getDriversResponse(Responses(Rosters))
    \/ processRace(Responses(PositionLists))
    \/ returnStandings

Spec == Init /\ [][Next]_vars

-----------------------------------------------------------------------------
(* SpecRuns: calculateStandings called again and again on the cache the      *)
(* earlier runs left, over a smaller choice of upstream answers.             *)

\* the pauses between two calls of calculateStandings: shorter than the TTL, a TTL
RunSteps == {Latency, CACHE_DURATION}

RunSessionLists == {l \in YearSessionLists : Len(l) <= 1}
RunPositionLists == {<<>>, <<[driver_number |-> 1, position |-> 1]>>}
RunRosters == {<<[driver_number |-> 1, team_name |-> "X"]>>}

\* the run is over; time passes until calculateStandings is called again
nextCall(d) ==
    /\ st.pc \in {"resolved", "rejected"}
    /\ ticks < MaxTicks
    /\ ticks' = ticks + 1
    /\ now' = now + d
    /\ st' = InitRun
    /\ UNCHANGED <<cache, cacheVars, rateVars, upstream>>

NextRuns ==
    \/ calculateStandings
    \/ getRaceSessionsByYear(Responses(RunSessionLists))
    \/ getDrivers
    \/ getMeetingsByYear(Responses(MeetingLists))
    \/ getSessionsByMeeting(Responses(MeetingSessionLists))
    \/ getDriversResponse(Responses(RunRosters))
    \/ processRace(Responses(RunPositionLists))
    \/ returnStandings
    \/ \E d \in RunSteps : nextCall(d)

SpecRuns == Init /\ [][NextRuns]_vars


-----------------------------------------------------------------------------
(* Claims about the standings aggregator *)

\* the run computed its result (it was not served from the cache)
Computed == st.pc = "resolved" /\ ~st.fromCache

\* what the loop awarded to each record of the sorted list of a race: the
\* record at index i (from zero) of a roster driver got PointsAt(i)
Awarded(allDrivers, positions) ==
    LET sorted == sortedPositions(positions) IN
    [i \in 1..Len(sorted) |->
        [position |-> sorted[i].position,
         inRoster |-> FindDriver(allDrivers, sorted[i].driver_number) # 0,
         points |-> IF FindDriver(allDrivers, sorted[i].driver_number) # 0
                      THEN PointsAt(i - 1) ELSE 0]]

\* C4: in each processed race, of two classified roster drivers the one with
\* the smaller position (both at most 10) is awarded at least as many points,
\* and a classification with a position greater than 10 is awarded 0 points.
C4_PointsMonotone ==
    \A r \in 1..Len(st.races) :
        st.races[r].outcome = "ok" =>
            LET a == Awarded(st.allDrivers, st.races[r].positions) IN
            \A i, j \in 1..Len(a) :
                /\ (a[i].inRoster /\ a[j].inRoster
                      /\ a[i].position < a[j].position /\ a[j].position <= 10)
                     => a[i].points >= a[j].points
                /\ (a[i].inRoster /\ a[i].position > 10) => a[i].points = 0

\* the scenario of the specification: roster [A (team X), B (team Y)], race 1
\* finishes [A, B], race 2 finishes [B, A]
ScenarioRoster ==
    <<[driver_number |-> 1, team_name |-> "X"], [driver_number |-> 2, team_name |-> "Y"]>>
ScenarioRaces ==
    << <<[driver_number |-> 1, position |-> 1], [driver_number |-> 2, position |-> 2]>>,
       <<[driver_number |-> 2, position |-> 1], [driver_number |-> 1, position |-> 2]>> >>
ScenarioInputs ==
    /\ st.allDrivers = ScenarioRoster
    /\ [r \in 1..Len(st.races) |-> st.races[r].positions] = ScenarioRaces

\* C5: two drivers that end with equal points and equal wins are listed in
\* their roster order; on the scenario above the result is A 43 points / 1 win,
\* then B 43 points / 1 win.
C5_RankingStable ==
    Computed =>
      /\ \A i, j \in 1..Len(st.result.drivers) :
            (/\ i < j
             /\ st.result.drivers[i].points = st.result.drivers[j].points
             /\ st.result.drivers[i].wins = st.result.drivers[j].wins)
              => FindDriver(st.allDrivers, st.result.drivers[i].driver_number)
                   < FindDriver(st.allDrivers, st.result.drivers[j].driver_number)
      /\ ScenarioInputs =>
            st.result.drivers =
              <<[driver_number |-> 1, team_name |-> "X", points |-> 43, wins |-> 1],
                [driver_number |-> 2, team_name |-> "Y", points |-> 43, wins |-> 1]>>

\* C5 witness: the scenario was computed
C5_Witness == Computed /\ ScenarioInputs

\* no entry of the list is followed by one with more points, or with equal
\* points and more wins
Ordered(list) ==
    \A i, j \in 1..Len(list) :
        i < j => \/ list[i].points > list[j].points
                 \/ list[i].points = list[j].points /\ list[i].wins >= list[j].wins

\* C6: in every StandingsResult the driver list and the constructor list are
\* ordered by points descending and, among equal points, by wins descending.
C6_ListsOrdered ==
    st.pc = "resolved" => Ordered(st.result.drivers) /\ Ordered(st.result.constructors)

\* C6 witness: two drivers with equal points were put in the order of their
\* wins, against their roster order, and there are two constructors
C6_Witness ==
    /\ Computed
    /\ Len(st.result.drivers) = 2
    /\ Len(st.result.constructors) = 2
    /\ st.result.drivers[1].points = st.result.drivers[2].points
    /\ st.result.drivers[1].wins > st.result.drivers[2].wins
    /\ FindDriver(st.allDrivers, st.result.drivers[1].driver_number) = 2

RECURSIVE TotalsOver(_, _, _)
\* the totals the loop reaches over the first n of the given position lists
TotalsOver(allDrivers, lists, n) ==
    IF n = 0 THEN InitialTotals(allDrivers)
    ELSE ProcessPositions(allDrivers, TotalsOver(allDrivers, lists, n - 1), lists[n])

\* the position lists of the races whose positions were retrieved
RetrievedRaces(races) ==
    LET kept == SelectSeq(races, LAMBDA r : r.outcome = "ok") IN
    [k \in 1..Len(kept) |-> kept[k].positions]

\* C7: a race whose position fetch fails or returns an empty list does not
\* reject the run and adds nothing: the totals are those of the other races
\* alone, every completed race is gone through, and the result carries those
\* totals.
C7_FailedRaceSkipped ==
    /\ st.pc = "rejected" => Len(st.races) = 0
    /\ (st.pc = "races" \/ Computed) =>
          st.totals = TotalsOver(st.allDrivers, RetrievedRaces(st.races),
                                 Len(RetrievedRaces(st.races)))
    /\ Computed =>
          /\ Len(st.races) = Len(st.completedRaces)
          /\ \A i \in 1..Len(st.result.drivers) :
                st.result.drivers[i].points =
                    TotalsOver(st.allDrivers, RetrievedRaces(st.races),
                               Len(RetrievedRaces(st.races)))
                        .driverPoints[st.result.drivers[i].driver_number]

\* C7 witness: the first race failed, the second was awarded
C7_Witness ==
    /\ Computed
    /\ Len(st.races) = 2
    /\ st.races[1].outcome = "failed"
    /\ st.races[2].outcome = "ok"
    /\ \E i \in 1..Len(st.result.drivers) : st.result.drivers[i].points > 0

\* the list of race sessions the run obtained is empty
NoRaceSessions ==
    st.pc \notin {"idle", "sessions"} /\ ~st.fromCache /\ Len(st.raceSessions) = 0

\* C8: when the race-session list is empty or the roster lookup fails, the run
\* rejects, returns no StandingsResult and leaves the entry of
\* calculated-standings-Y as it was when the run began.
C8_FatalFailures ==
    (NoRaceSessions \/ st.cause = "roster") =>
        /\ st.pc = "rejected"
        /\ st.result = None
        /\ cache[StandingsKey] = st.entry0

\* C8 witness: the roster lookup failed in a run that began with an expired
\* standings entry, and the run before it had no race sessions
C8_Witness ==
    /\ st.pc = "rejected"
    /\ st.cause = "roster"
    /\ st.entry0 # None

\* C9: after a failed sessions?year=Y request no fresh entry is left under
\* race-sessions-Y, so the next call within the TTL requests the sessions again.
C9_FailedSessionsNotCached ==
    upstream.lastSessions = "failed" => ~IsFresh(cache[RaceSessionsKey], now)

\* C10: the driver list holds each roster driver exactly once and nobody else,
\* the constructor list each team name of the roster exactly once.
C10_EveryoneListed ==
    Computed =>
      /\ Len(st.result.drivers) = Len(st.allDrivers)
      /\ \A i \in 1..Len(st.allDrivers) :
            Cardinality({j \in 1..Len(st.result.drivers) :
                /\ st.result.drivers[j].driver_number = st.allDrivers[i].driver_number
                /\ st.result.drivers[j].team_name = st.allDrivers[i].team_name}) = 1
      /\ Len(st.result.constructors)
            = Cardinality({st.allDrivers[i].team_name : i \in 1..Len(st.allDrivers)})
      /\ \A i \in 1..Len(st.allDrivers) :
            Cardinality({j \in 1..Len(st.result.constructors) :
                st.result.constructors[j].name = st.allDrivers[i].team_name}) = 1

\* C10 witness: a race was awarded and a driver and a team without points are listed
C10_Witness ==
    /\ Computed
    /\ \E r \in 1..Len(st.races) : st.races[r].outcome = "ok"
    /\ \E i, j \in 1..Len(st.result.drivers) :
          st.result.drivers[i].points > 0 /\ st.result.drivers[j].points = 0
    /\ \E k \in 1..Len(st.result.constructors) : st.result.constructors[k].points = 0

RECURSIVE SumOver(_, _)
\* the sum of the counter f over the keys in S
SumOver(f, S) ==
    IF S = {} THEN 0
    ELSE LET k == CHOOSE x \in S : TRUE IN f[k] + SumOver(f, S \ {k})

\* C11: each race whose positions were retrieved adds at most one win, so the
\* wins summed over all drivers, and over all teams, never exceed the number
\* of completed races whose positions were retrieved.
C11_OneWinPerRace ==
    st.pc \in {"races", "resolved"} /\ ~st.fromCache =>
        /\ SumOver(st.totals.driverWins, DOMAIN st.totals.driverWins)
              <= Len(RetrievedRaces(st.races))
        /\ SumOver(st.totals.constructorWins, DOMAIN st.totals.constructorWins)
              <= Len(RetrievedRaces(st.races))

\* C26: processing one race awards a roster driver at most one entry of the
\* points table, so after any number of processed races no driver has more
\* than 25 points per race gone through, whatever records the position lists
\* hold.
C26_OneAwardPerDriver ==
    (st.pc \in {"races", "resolved"} /\ ~st.fromCache) =>
        \A n \in DOMAIN st.totals.driverPoints :
            st.totals.driverPoints[n] <= 25 * Len(RetrievedRaces(st.races))

\* the drivers of a standings list that belong to a team, by index
TeamMembers(drivers, team) == {i \in 1..Len(drivers) : drivers[i].team_name = team}

\* C27: in every StandingsResult a constructor's points are the sum of the
\* points of the drivers with its team_name, and its wins the sum of their
\* wins, whether the races were processed, skipped or failed.
C27_ConstructorIsSumOfDrivers ==
    Computed =>
        \A k \in 1..Len(st.result.constructors) :
            LET c == st.result.constructors[k]
                members == TeamMembers(st.result.drivers, c.name) IN
            /\ c.points =
                  SumOver([i \in 1..Len(st.result.drivers) |-> st.result.drivers[i].points],
                          members)
            /\ c.wins =
                  SumOver([i \in 1..Len(st.result.drivers) |-> st.result.drivers[i].wins],
                          members)

\* C27 witness: two drivers of one team scored in a race, one of them won it,
\* and another completed race gave no positions
C27_Witness ==
    /\ Computed
    /\ Len(st.result.constructors) = 1
    /\ Len(st.result.drivers) = 2
    /\ st.result.drivers[1].points > 0 /\ st.result.drivers[2].points > 0
    /\ st.result.constructors[1].wins = 1
    /\ \E r \in 1..Len(st.races) : st.races[r].outcome # "ok"

\* the race session of the run with the given session_key is over at time t
OverAt(sessions, key, t) ==
    \E i \in 1..Len(sessions) :
        /\ sessions[i].session_key = key
        /\ sessions[i].date_end # NoDate
        /\ sessions[i].date_end < t

\* C12: positions are fetched, and points or wins awarded, only for race
\* sessions whose date_end is earlier than the computation time; with no
\* completed race and at least one scheduled race the run resolves with every
\* driver and constructor at 0 points and 0 wins, completedRaces = 0 and
\* upcomingRaces = totalRaces.
C12_OnlyCompletedRaces ==
    /\ \A r \in 1..Len(st.races) :
          OverAt(st.raceSessions, st.races[r].session_key, st.computedAt)
    /\ \A k \in 1..MaxSessions :
          cache[PositionsKey(k)] # None => OverAt(st.raceSessions, k, st.computedAt)
    /\ (Computed /\ Len(st.raceSessions) >= 1
          /\ \A i \in 1..Len(st.raceSessions) :
                ~OverAt(st.raceSessions, st.raceSessions[i].session_key, st.computedAt))
        => /\ \A i \in 1..Len(st.result.drivers) :
                st.result.drivers[i].points = 0 /\ st.result.drivers[i].wins = 0
           /\ \A i \in 1..Len(st.result.constructors) :
                st.result.constructors[i].points = 0 /\ st.result.constructors[i].wins = 0
           /\ st.result.completedRaces = 0
           /\ st.result.upcomingRaces = st.result.totalRaces
           /\ st.result.totalRaces >= 1

\* C12 witness: a run with two scheduled races, none of them over, and a
\* roster of two resolved
C12_Witness ==
    /\ Computed
    /\ Len(st.raceSessions) = 2
    /\ Len(st.completedRaces) = 0
    /\ Len(st.allDrivers) = 2

\* C13: in every StandingsResult totalRaces is the number of race sessions of
\* the year, completedRaces the number of those whose date_end is before the
\* computation time and upcomingRaces their difference, also when a completed
\* race was skipped because its positions could not be retrieved.
C13_RaceCounts ==
    Computed =>
      /\ st.result.totalRaces = Len(st.raceSessions)
      /\ st.result.completedRaces =
            Cardinality({i \in 1..Len(st.raceSessions) :
                /\ st.raceSessions[i].date_end # NoDate
                /\ st.raceSessions[i].date_end < st.computedAt})
      /\ st.result.upcomingRaces = st.result.totalRaces - st.result.completedRaces
      /\ 0 <= st.result.completedRaces
      /\ st.result.completedRaces <= st.result.totalRaces
      /\ st.result.completedRaces + st.result.upcomingRaces = st.result.totalRaces

\* C13 witness: of two race sessions one is over, and its positions could not
\* be retrieved
C13_Witness ==
    /\ Computed
    /\ st.result.totalRaces = 2
    /\ st.result.completedRaces = 1
    /\ Len(st.races) = 1
    /\ st.races[1].outcome = "failed"

-----------------------------------------------------------------------------
(* The year-scoped roster lookup on its own: getDrivers(undefined, Year)
   called again and again, with meetings and sessions that carry their
   date_start and come in any order. *)

\* date_start of the earlier and of the later of two meetings or sessions
StartDates == {PastDate, PastDate + Latency}

\* the lists of at most two records with distinct keys and distinct dates
DatedLists(records) ==
    {l \in SeqsUpTo(records, 2) :
        \A i, j \in DOMAIN l :
            i # j => l[i].key # l[j].key /\ l[i].date_start # l[j].date_start}

\* meetings?year=Y, in any order
DatedMeetingLists ==
    {[i \in DOMAIN l |-> [meeting_key |-> l[i].key, date_start |-> l[i].date_start]] :
        l \in DatedLists([key : MeetingKeys, date_start : StartDates])}

\* sessions?meeting_key=M, in any order
DatedSessionLists(meetingKey) ==
    {[i \in DOMAIN l |-> [session_key |-> l[i].key, meeting_key |-> meetingKey,
                          date_start |-> l[i].date_start]] :
        l \in DatedLists([key : MeetingSessionKeys, date_start : StartDates])}

\* drivers?session_key=K: the records carry the session and the meeting asked for
SessionRosters(meetingKey, sessionKey) ==
    {[i \in DOMAIN r |-> [driver_number |-> r[i].driver_number,
                          team_name |-> r[i].team_name,
                          session_key |-> sessionKey,
                          meeting_key |-> meetingKey]] : r \in RunRosters}

\* the caller is at `await getDrivers(undefined, year)`
AtGetDrivers(entry) == [InitRun EXCEPT !.pc = "drivers", !.entry0 = entry]

InitRoster ==
    /\ now = StartTime
    /\ ticks = 0
    /\ cache = [k \in StandingsKeys |-> None]
    /\ caller = [c \in Callers |-> Idle]
    /\ invoked = [k \in CacheKeys |-> 0]
    /\ serial = 0
    /\ resolvedAt = [k \in CacheKeys |-> None]
    /\ retryDue = [k \in CacheKeys |-> FALSE]
    /\ last = NoEvent
    /\ lastApiCall = 0
    /\ limiter = [c \in Callers |-> Idle]
    /\ dispatched = <<>>
    /\ st = AtGetDrivers(None)
    /\ upstream = [requests |-> 0, records |-> 0, lastSessions |-> "none"]

\* the lookup resolved or rejected; d later getDrivers(undefined, year) is
\* called again
nextGetDrivers(d) ==
    /\ st.pc \in {"races", "rejected"}
    /\ ticks < MaxTicks
    /\ ticks' = ticks + 1
    /\ now' = now + d
    /\ st' = AtGetDrivers(cache[DriversKey])
    /\ UNCHANGED <<cache, cacheVars, rateVars, upstream>>

NextRoster ==
    \/ getDrivers
    \/ getMeetingsByYear(Responses(DatedMeetingLists))
    \/ getSessionsByMeeting(Responses(DatedSessionLists(st.latestMeeting)))
    \/ getDriversResponse(Responses(SessionRosters(st.latestMeeting, st.latestSession)))
    \/ \E d \in RunSteps : nextGetDrivers(d)

SpecRoster == InitRoster /\ [][NextRoster]_vars

\* the key of the record of the list with the latest date_start
ChronologicallyLast(list, keyOf(_)) ==
    keyOf(list[CHOOSE i \in 1..Len(list) :
                  \A j \in 1..Len(list) : list[j].date_start <= list[i].date_start])

\* getDrivers(undefined, year) resolved with what its chain of lookups fetched
RosterFetched == st.pc = "races" /\ st.latestSession # 0

\* C14: the roster returned is that of the chronologically last session of the
\* chronologically last meeting of the year, in whatever order the upstream
\* lists the meetings and the sessions.
C14_LatestSessionRoster ==
    RosterFetched =>
      /\ st.latestMeeting =
            ChronologicallyLast(cache[MeetingsKey].data, LAMBDA m : m.meeting_key)
      /\ st.latestSession =
            ChronologicallyLast(cache[MeetingSessionsKey(st.latestMeeting)].data,
                                LAMBDA s : s.session_key)
      /\ \A i \in 1..Len(st.allDrivers) :
            /\ st.allDrivers[i].meeting_key = st.latestMeeting
            /\ st.allDrivers[i].session_key = st.latestSession

\* C15: when a fetch of the chain fails or the meetings or the sessions list
\* is empty, getDrivers(undefined, Y) rejects, returns no roster and leaves
\* the entry of drivers-year-Y as it was, not fresh, so that a later call runs
\* the chain again; it resolves from the chain only when the three fetches
\* gave a non-empty meetings list, a non-empty sessions list and the roster.
C15_RosterAllOrNothing ==
    /\ st.pc = "rejected" =>
          /\ st.cause = "roster"
          /\ st.allDrivers = <<>>
          /\ cache[DriversKey] = st.entry0
          /\ ~IsFresh(cache[DriversKey], now)
    /\ RosterFetched =>
          /\ IsFresh(cache[MeetingsKey], now)
          /\ Len(cache[MeetingsKey].data) > 0
          /\ IsFresh(cache[MeetingSessionsKey(st.latestMeeting)], now)
          /\ Len(cache[MeetingSessionsKey(st.latestMeeting)].data) > 0
          /\ cache[DriversKey].data = st.allDrivers

\* C15 witness: a lookup rejected at the drivers request, after an earlier
\* lookup had stored a roster that has expired since
C15_Witness ==
    /\ st.pc = "rejected"
    /\ st.latestSession # 0
    /\ st.entry0 # None

-----------------------------------------------------------------------------
(* getRaceSessionsByYear(Year) on its own, against an upstream whose answer
   to sessions?year=Y is fixed at the start and kept in upstream.response. *)

\* the caller is at `await getRaceSessionsByYear(year)`
AtGetRaceSessions == [InitRun EXCEPT !.pc = "sessions"]

InitSessions ==
    /\ now = StartTime
    /\ ticks = 0
    /\ cache = [k \in StandingsKeys |-> None]
    /\ caller = [c \in Callers |-> Idle]
    /\ invoked = [k \in CacheKeys |-> 0]
    /\ serial = 0
    /\ resolvedAt = [k \in CacheKeys |-> None]
    /\ retryDue = [k \in CacheKeys |-> FALSE]
    /\ last = NoEvent
    /\ lastApiCall = 0
    /\ limiter = [c \in Callers |-> Idle]
    /\ dispatched = <<>>
    /\ st = AtGetRaceSessions
    /\ \E resp \in Responses(YearSessionLists) :
          upstream = [requests |-> 0, records |-> 0, lastSessions |-> "none",
                      response |-> resp]

\* the call returned; d later getRaceSessionsByYear(year) is called again
nextGetRaceSessions(d) ==
    /\ st.pc \in {"drivers", "rejected"}
    /\ ticks < MaxTicks
    /\ ticks' = ticks + 1
    /\ now' = now + d
    /\ st' = AtGetRaceSessions
    /\ UNCHANGED <<cache, cacheVars, rateVars, upstream>>

NextSessions ==
    \/ getRaceSessionsByYear({upstream.response})
    \/ \E d \in RunSteps : nextGetRaceSessions(d)

SpecSessions == InitSessions /\ [][NextSessions]_vars

\* C16: what getRaceSessionsByYear(Y) returns (and stores) is exactly the
\* sessions of the upstream response whose session_name is "Race" and whose
\* session_type is "Race", each once, in upstream order: no sprint, practice
\* or qualifying session is included and no such race session is dropped.
C16_ExactlyTheRaces ==
    upstream.lastSessions = "ok" =>
      LET returned == cache[RaceSessionsKey].data
          listed == upstream.response.data IN
      /\ \A i \in 1..Len(returned) :
            /\ returned[i].session_name = "Race"
            /\ returned[i].session_type = "Race"
            /\ \E k \in 1..Len(listed) : listed[k] = returned[i]
      /\ \A k \in 1..Len(listed) :
            (listed[k].session_name = "Race" /\ listed[k].session_type = "Race")
              => Cardinality({i \in 1..Len(returned) : returned[i] = listed[k]}) = 1
      /\ \A i, j \in 1..Len(returned) :
            i < j => \E k, l \in 1..Len(listed) :
                        k < l /\ listed[k] = returned[i] /\ listed[l] = returned[j]

\* C16 witness: a sprint session and a race session were listed and only the
\* race session was returned
C16_Witness ==
    /\ upstream.lastSessions = "ok"
    /\ Len(upstream.response.data) = 2
    /\ upstream.response.data[1].session_name = "Sprint"
    /\ Len(cache[RaceSessionsKey].data) = 1
    /\ st.pc = "drivers"

-----------------------------------------------------------------------------
(* One run of calculateStandings over race sessions that are all over, with
   distinct date_end and listed in any order. *)

\* date_end of the earlier and of the later of two completed races
EndDates == {PastDate, PastDate + Latency}

\* sessions?year=Y: race sessions only, distinct session keys and dates
CompletedSessionLists ==
    {[i \in DOMAIN l |-> [session_key |-> l[i].key, session_name |-> "Race",
                          session_type |-> "Race", date_end |-> l[i].date_start]] :
        l \in DatedLists([key : 1..MaxSessions, date_start : EndDates])}

NextOrder ==
    \/ calculateStandings
    \/ getRaceSessionsByYear(Responses(CompletedSessionLists))
    \/ getDrivers
    \/ getMeetingsByYear(Responses(MeetingLists))
    \/ getSessionsByMeeting(Responses(MeetingSessionLists))
    \/ getDriversResponse(Responses(RunRosters))
    \/ processRace(Responses(RunPositionLists))
    \/ returnStandings

SpecOrder == Init /\ [][NextOrder]_vars

\* date_end of the race session with the given key
DateEndOf(sessions, key) ==
    LET i == CHOOSE k \in 1..Len(sessions) : sessions[k].session_key = key IN
    sessions[i].date_end

\* C17: within one run the completed races are processed one after another in
\* chronological order of the sessions: a race processed later never ended
\* before a race processed earlier, in whatever order the upstream listed them.
C17_ChronologicalProcessing ==
    \A i, j \in 1..Len(st.races) :
        i < j => DateEndOf(st.raceSessions, st.races[i].session_key)
                    <= DateEndOf(st.raceSessions, st.races[j].session_key)

-----------------------------------------------------------------------------
(* Claims about overlapping callers and the age of an entry (SpecCache) *)

\* C18: when several callers request a key that has no fresh entry, the
\* producer for that key runs at most once within one TTL window: no two
\* callers are awaiting a producer for the same key, started less than a TTL
\* apart.
C18_ProducerRunsOnce ==
    \A c, d \in Callers :
        (c # d /\ caller[c].pc = "fetching" /\ caller[d].pc = "fetching"
            /\ caller[c].key = caller[d].key /\ caller[c].now <= caller[d].now)
          => caller[d].now - caller[c].now >= CACHE_DURATION

\* C19: the entry stored on a miss carries the time at which the producer's
\* result was stored, so that it stays fresh for the whole TTL that follows
\* the completion of the fetch, however long the producer took.
C19_StampedWhenStored ==
    \A k \in CacheKeys :
        (cache[k] # None /\ resolvedAt[k] # None) =>
            /\ cache[k].timestamp = resolvedAt[k].at
            /\ (now - resolvedAt[k].at < CACHE_DURATION => IsFresh(cache[k], now))

\* C28: a fetch that was in flight when clearCache ran does not put its
\* result back into the cache: after such a producer has resolved, the cache
\* does not hold its value, so no later call is served a value whose producer
\* was started before the clear.
C28_ClearedFetchNotStored ==
    (last.op = "resolve" /\ last.cleared) =>
        \/ cache[last.key] = None
        \/ cache[last.key].data # last.data

\* C29: the timestamp of the entry of a key never decreases: a step that
\* replaces an entry leaves one that is not older than the entry it replaces.
C29_TimestampMonotone ==
    [][\A k \in CacheKeys :
          (cache[k] # None /\ cache'[k] # None)
              => cache'[k].timestamp >= cache[k].timestamp]_vars

-----------------------------------------------------------------------------
(* getSeasonStats(Year) of the modular OpenF1Service: calculateStandings,
   then getMeetingsByYear, then getCircuitsByYear, each behind its cache key.
   The frame of getSeasonStats is kept in st.season; st itself is the run of
   calculateStandings that getSeasonStats awaits, or that is called alone. *)

SeasonStatsKey == <<"season-stats", Year>>
CircuitsKey == <<"circuits-year", Year>>
SeasonKeys == StandingsKeys \cup {SeasonStatsKey, CircuitsKey}

\* meetings?year=Y: meetings with their circuit and their date_start, in any order
SeasonMeetingLists ==
    {[i \in DOMAIN l |-> [meeting_key |-> l[i].key, circuit_key |-> l[i].circuit_key,
                          date_start |-> l[i].date_start]] :
        l \in DatedLists([key : MeetingKeys, date_start : StartDates,
                          circuit_key : 1..2])}

\* the Circuit that getCircuitsByYear makes of a meeting
CircuitOf(meeting) ==
    [circuit_key |-> meeting.circuit_key, date_start |-> meeting.date_start,
     meeting_key |-> meeting.meeting_key]

\* a plausible slip: the map is set for every meeting, so the last meeting of
\* a circuit_key overwrites the fields of the first
circuitsMapOverwritten(meetings) ==
    LET first == {i \in 1..Len(meetings) :
                    \A j \in 1..(i - 1) : meetings[j].circuit_key # meetings[i].circuit_key}
        nth(r) == CHOOSE i \in first : Cardinality({j \in first : j < i}) = r - 1
        lastOf(i) == CHOOSE j \in i..Len(meetings) :
                      /\ meetings[j].circuit_key = meetings[i].circuit_key
                      /\ \A l \in (j + 1)..Len(meetings) :
                            meetings[l].circuit_key # meetings[i].circuit_key
    IN [r \in 1..Cardinality(first) |-> CircuitOf(meetings[lastOf(nth(r))])]

\* circuitsMap after meetings.forEach: the first meeting of each circuit_key,
\* in the order of insertion
circuitsMap(meetings) ==
    LET first == {i \in 1..Len(meetings) :
                    \A j \in 1..(i - 1) : meetings[j].circuit_key # meetings[i].circuit_key}
        nth(r) == CHOOSE i \in first : Cardinality({j \in first : j < i}) = r - 1
    IN [r \in 1..Cardinality(first) |-> CircuitOf(meetings[nth(r)])]

\* (a, b) => { if (!a.date_start || !b.date_start) return 0
\*             return new Date(a.date_start).getTime() - new Date(b.date_start).getTime() }
CompareCircuits(a, b) ==
    IF a.date_start = NoDate \/ b.date_start = NoDate THEN 0
    ELSE a.date_start - b.date_start

\* the place of circuit i after the stable .sort(CompareCircuits)
RankCircuit(s, i) ==
    1 + Cardinality({j \in 1..Len(s) :
            \/ CompareCircuits(s[j], s[i]) < 0
            \/ CompareCircuits(s[j], s[i]) = 0 /\ j < i})

\* Array.from(circuitsMap.values()).sort(...)
circuitsByYear(meetings) ==
    LET s == circuitsMap(meetings) IN
    [r \in 1..Len(s) |-> s[CHOOSE i \in 1..Len(s) : RankCircuit(s, i) = r]]

\* the frame of a call: firstAt is the time at which the getSeasonStats run
\* that filled the empty cache began (0: there was none), callAt the time of
\* the present call and requests0 the requests issued before it
SeasonFrame(firstAt, callAt, requests0) ==
    [pc |-> "idle", now0 |-> 0, fromCache |-> FALSE, meetings |-> <<>>,
     stats |-> None, firstAt |-> firstAt, callAt |-> callAt, requests0 |-> requests0]

\* the run of calculateStandings not yet called, with the frame of getSeasonStats
SeasonRun(frame) ==
    [pc |-> InitRun.pc, now0 |-> InitRun.now0, entry0 |-> InitRun.entry0,
     fromCache |-> InitRun.fromCache, cause |-> InitRun.cause,
     raceSessions |-> InitRun.raceSessions, completedRaces |-> InitRun.completedRaces,
     computedAt |-> InitRun.computedAt, driversNow |-> InitRun.driversNow,
     latestMeeting |-> InitRun.latestMeeting, latestSession |-> InitRun.latestSession,
     allDrivers |-> InitRun.allDrivers, totals |-> InitRun.totals,
     index |-> InitRun.index, races |-> InitRun.races, result |-> InitRun.result,
     season |-> frame]

InitSeason ==
    /\ now = StartTime
    /\ ticks = 0
    /\ cache = [k \in SeasonKeys |-> None]
    /\ caller = [c \in Callers |-> Idle]
    /\ invoked = [k \in CacheKeys |-> 0]
    /\ serial = 0
    /\ resolvedAt = [k \in CacheKeys |-> None]
    /\ retryDue = [k \in CacheKeys |-> FALSE]
    /\ last = NoEvent
    /\ lastApiCall = 0
    /\ limiter = [c \in Callers |-> Idle]
    /\ dispatched = <<>>
    /\ st = SeasonRun(SeasonFrame(0, StartTime, 0))
    /\ upstream = [requests |-> 0, records |-> 0, lastSessions |-> "none"]

\* getSeasonStats(year): getCachedOrFetch(cacheKey, ...) up to
\* `await this.calculateStandings(targetYear)`
getSeasonStats ==
    /\ st.pc = "idle"
    /\ st.season.pc = "idle"
    /\ IF IsFresh(cache[SeasonStatsKey], now)
         THEN st' = [st EXCEPT !.season.pc = "resolved", !.season.fromCache = TRUE,
                               !.season.stats = cache[SeasonStatsKey].data]
         ELSE st' = [st EXCEPT !.season.pc = "standings", !.season.now0 = now]
    /\ UNCHANGED <<now, ticks, cache, cacheVars, rateVars, upstream>>

\* calculateStandings rejected: the catch of getSeasonStats throws in its turn
getSeasonStatsRejects ==
    /\ st.season.pc = "standings"
    /\ st.pc = "rejected"
    /\ st' = [st EXCEPT !.season.pc = "rejected"]
    /\ UNCHANGED <<now, ticks, cache, cacheVars, rateVars, upstream>>

\* a plausible slip: the meetings are requested without looking into the cache
getMeetingsByYearUncached(responses) ==
    {[ok |-> resp.ok,
      data |-> IF resp.ok THEN resp.data ELSE <<>>,
      requested |-> TRUE,
      cache |-> IF resp.ok THEN CacheSet(cache, MeetingsKey, resp.data, now) ELSE cache,
      now |-> DispatchTime(now, lastApiCall)] : resp \in responses}

\* what a call of getMeetingsByYear(year) made now can come to: the value of a
\* fresh entry, or the outcome of the rate-limited request with the cache and
\* the clock it leaves
getMeetingsByYearOutcomes(responses) ==
    IF IsFresh(cache[MeetingsKey], now)
      THEN {[ok |-> TRUE, data |-> cache[MeetingsKey].data, requested |-> FALSE,
             cache |-> cache, now |-> now]}
      ELSE {[ok |-> resp.ok,
             data |-> IF resp.ok THEN resp.data ELSE <<>>,
             requested |-> TRUE,
             cache |-> IF resp.ok THEN CacheSet(cache, MeetingsKey, resp.data, now)
                       ELSE cache,
             now |-> DispatchTime(now, lastApiCall)] : resp \in responses}

\* the clock, the limiter and the request count after such a call
AfterMeetingsCall(outcome) ==
    /\ outcome.requested => upstream.requests < MaxRequests
    /\ now' = outcome.now
    /\ lastApiCall' = IF outcome.requested THEN outcome.now ELSE lastApiCall
    /\ upstream' = IF outcome.requested THEN Requested(upstream) ELSE upstream

\* `const meetings = await getMeetingsByYear(targetYear)` and the check that
\* follows it
getSeasonMeetings(responses) ==
    /\ st.season.pc = "standings"
    /\ st.pc = "resolved"
    /\ \E outcome \in getMeetingsByYearOutcomes(responses) :
          /\ AfterMeetingsCall(outcome)
          /\ cache' = outcome.cache
          /\ st' = IF outcome.ok /\ Len(outcome.data) > 0
                     THEN [st EXCEPT !.season.pc = "circuits",
                                     !.season.meetings = outcome.data]
                     ELSE [st EXCEPT !.season.pc = "rejected"]
    /\ UNCHANGED <<ticks, cacheVars, limiter, dispatched>>

\* the SeasonStats that getSeasonStats returns
SeasonStats(s, circuits) ==
    [totalRaces |-> s.result.totalRaces,
     completedRaces |-> s.result.completedRaces,
     upcomingRaces |-> s.result.upcomingRaces,
     totalDrivers |-> Len(s.result.drivers),
     totalConstructors |-> Len(s.result.constructors),
     currentYear |-> Year,
     meetings |-> s.season.meetings,
     drivers |-> s.result.drivers,
     constructors |-> s.result.constructors,
     circuits |-> circuits,
     sessions |-> <<>>,
     lastUpdated |-> s.result.lastUpdated]

\* getSeasonStats resolves with the circuits: the stats are stored under
\* season-stats-Y with the time read when getSeasonStats was entered
SeasonResolved(s, c, circuits) ==
    /\ cache' = CacheSet(c, SeasonStatsKey, SeasonStats(s, circuits), s.season.now0)
    /\ st' = [s EXCEPT !.season.pc = "resolved",
                       !.season.stats = SeasonStats(s, circuits),
                       !.season.firstAt = IF ticks = 0 THEN s.season.now0 ELSE @]

\* `const circuits = await getCircuitsByYear(targetYear)` and the return of
\* getSeasonStats: a fresh circuits entry is taken, otherwise the circuits are
\* made of what getMeetingsByYear gives and stored under circuits-year-Y
getCircuitsByYear(responses) ==
    /\ st.season.pc = "circuits"
    /\ IF IsFresh(cache[CircuitsKey], now)
         THEN /\ SeasonResolved(st, cache, cache[CircuitsKey].data)
              /\ UNCHANGED <<now, lastApiCall, upstream>>
         ELSE \E outcome \in getMeetingsByYearOutcomes(responses) :
                /\ AfterMeetingsCall(outcome)
                /\ IF outcome.ok
                     THEN SeasonResolved(st,
                              CacheSet(outcome.cache, CircuitsKey,
                                       circuitsByYear(outcome.data), now),
                              circuitsByYear(outcome.data))
                     ELSE /\ cache' = outcome.cache
                          /\ st' = [st EXCEPT !.season.pc = "rejected"]
    /\ UNCHANGED <<ticks, cacheVars, limiter, dispatched>>

\* the call is over
CallOver ==
    \/ st.season.pc \in {"resolved", "rejected"}
    \/ st.season.pc = "idle" /\ st.pc \in {"resolved", "rejected"}

\* d later getSeasonStats(year) or calculateStandings(year) is called again
nextSeasonCall(d) ==
    /\ CallOver
    /\ ticks < MaxTicks
    /\ ticks' = ticks + 1
    /\ now' = now + d
    /\ st' = SeasonRun(SeasonFrame(st.season.firstAt, now + d, upstream.requests))
    /\ UNCHANGED <<cache, cacheVars, rateVars, upstream>>

NextSeason ==
    \/ getSeasonStats
    \/ calculateStandings
    \/ getRaceSessionsByYear(Responses(RunSessionLists))
    \/ getDrivers
    \/ getMeetingsByYear(Responses(SeasonMeetingLists))
    \/ getSessionsByMeeting(Responses(MeetingSessionLists))
    \/ getDriversResponse(Responses(RunRosters))
    \/ processRace(Responses(RunPositionLists))
    \/ returnStandings
    \/ getSeasonStatsRejects
    \/ getSeasonMeetings(Responses(SeasonMeetingLists))
    \/ getCircuitsByYear(Responses(SeasonMeetingLists))
    \/ \E d \in RunSteps : nextSeasonCall(d)

SpecSeason == InitSeason /\ [][NextSeason]_vars

\* the cache entry of the query that a request issued in this state goes to
RequestedEntry ==
    CASE st.pc = "sessions" -> cache[RaceSessionsKey]
      [] st.pc = "meetings" -> cache[MeetingsKey]
      [] st.pc = "meetingSessions" -> cache[MeetingSessionsKey(st.latestMeeting)]
      [] st.pc = "driversRequest" -> cache[DriversKey]
      [] st.pc = "races" ->
            cache[PositionsKey(st.completedRaces[st.index + 1].session_key)]
      [] OTHER -> cache[MeetingsKey]

\* the run of getSeasonStats that starts from the empty cache is under way or over
FirstSeasonRun == ticks = 0 /\ st.season.pc # "idle"

\* a later call made less than a TTL after that run began
CallWithinTTL ==
    /\ ticks > 0
    /\ st.season.firstAt # 0
    /\ st.season.callAt - st.season.firstAt < CACHE_DURATION

\* C20: a getSeasonStats(Y) run that starts from the empty cache requests each
\* upstream query at most once (a request goes only to a query that has no
\* entry yet; the requests are at most the four lookups and one position
\* query per processed race, each race once), and a later getSeasonStats(Y) or
\* calculateStandings(Y) within the TTL issues no upstream request at all.
C20_NoDuplicateRequests ==
    /\ [][(FirstSeasonRun /\ upstream'.requests # upstream.requests)
            => RequestedEntry = None]_vars
    /\ [](FirstSeasonRun =>
            /\ upstream.requests <= 4 + Len(st.races)
            /\ \A i, j \in 1..Len(st.races) :
                  i # j => st.races[i].session_key # st.races[j].session_key)
    /\ [](CallWithinTTL => upstream.requests = st.season.requests0)

\* C20 witness: the first getSeasonStats run made its five requests and
\* resolved, and a later call within the TTL was served from the cache
C20_Witness ==
    /\ CallWithinTTL
    /\ CallOver
    /\ upstream.requests = 5
    /\ \/ st.season.pc = "resolved" /\ st.season.fromCache
       \/ st.season.pc = "idle" /\ st.pc = "resolved" /\ st.fromCache

-----------------------------------------------------------------------------
(* The circuit lists derived from a meetings list: getCircuits,
   getCircuitsByYear, and the circuits field of the monolithic
   OpenF1Service.getSeasonStats, each applied to a list drawn at the start. *)

\* a meetings list: the meeting at place i has meeting_key i, any circuit and
\* any of two dates (date_start is a required field of Meeting)
CircuitMeetingLists ==
    {[i \in DOMAIN l |-> [meeting_key |-> i, circuit_key |-> l[i].circuit_key,
                          date_start |-> l[i].date_start]] :
        l \in SeqsUpTo([circuit_key : 1..2, date_start : StartDates], MaxMeetings)}

\* meetings.map(meeting => ({...})).filter((circuit, index, self) =>
\*     index === self.findIndex(c => c.circuit_key === circuit.circuit_key))
monolithicCircuits(meetings) ==
    LET mapped == [i \in 1..Len(meetings) |-> CircuitOf(meetings[i])]
        findIndex(key) == CHOOSE i \in 1..Len(mapped) :
                            /\ mapped[i].circuit_key = key
                            /\ \A j \in 1..(i - 1) : mapped[j].circuit_key # key
        kept == {i \in 1..Len(mapped) : i = findIndex(mapped[i].circuit_key)}
        nth(r) == CHOOSE i \in kept : Cardinality({j \in kept : j < i}) = r - 1
    IN [r \in 1..Cardinality(kept) |-> mapped[nth(r)]]

InitCircuits ==
    /\ now = StartTime
    /\ ticks = 0
    /\ cache = [k \in SeasonKeys |-> None]
    /\ caller = [c \in Callers |-> Idle]
    /\ invoked = [k \in CacheKeys |-> 0]
    /\ serial = 0
    /\ resolvedAt = [k \in CacheKeys |-> None]
    /\ retryDue = [k \in CacheKeys |-> FALSE]
    /\ last = NoEvent
    /\ lastApiCall = 0
    /\ limiter = [c \in Callers |-> Idle]
    /\ dispatched = <<>>
    /\ upstream = NoEvent
    /\ \E meetings \in CircuitMeetingLists :
          st = [pc |-> "meetings", meetings |-> meetings, by |-> "none",
                circuits |-> <<>>]

\* the circuits are derived from the meetings by one of the three functions
Derived(by, circuits) ==
    /\ st.pc = "meetings"
    /\ st' = [st EXCEPT !.pc = "derived", !.by = by, !.circuits = circuits]
    /\ UNCHANGED <<now, ticks, cache, cacheVars, rateVars, upstream>>

\* getCircuits: Array.from(uniqueCircuits.values())
getCircuits == Derived("getCircuits", circuitsMap(st.meetings))

\* getCircuitsByYear: Array.from(circuitsMap.values()).sort(...)
circuitsOfYear == Derived("getCircuitsByYear", circuitsByYear(st.meetings))

\* the circuits field of the monolithic OpenF1Service.getSeasonStats
circuitsOfSeason == Derived("getSeasonStats", monolithicCircuits(st.meetings))

NextCircuits ==
    \/ getCircuits
    \/ circuitsOfYear
    \/ circuitsOfSeason

SpecCircuits == InitCircuits /\ [][NextCircuits]_vars

\* the place in the list of the first meeting with the given circuit_key
FirstMeetingOf(meetings, key) ==
    CHOOSE i \in 1..Len(meetings) :
        /\ meetings[i].circuit_key = key
        /\ \A j \in 1..(i - 1) : meetings[j].circuit_key # key

\* C21: the derived circuit list contains each circuit_key of the meetings
\* list exactly once and no other, and the fields of a circuit are those of
\* the first meeting of the list with that key.
C21_CircuitsDeduplicated ==
    st.pc = "derived" =>
      /\ \A i \in 1..Len(st.meetings) :
            Cardinality({r \in 1..Len(st.circuits) :
                st.circuits[r].circuit_key = st.meetings[i].circuit_key}) = 1
      /\ \A r \in 1..Len(st.circuits) :
            /\ \E i \in 1..Len(st.meetings) :
                  st.meetings[i].circuit_key = st.circuits[r].circuit_key
            /\ LET m == st.meetings[FirstMeetingOf(st.meetings, st.circuits[r].circuit_key)]
               IN /\ st.circuits[r].meeting_key = m.meeting_key
                  /\ st.circuits[r].date_start = m.date_start

\* C21 witness: three meetings, two of them at the same circuit with different
\* dates, gave two circuits through getCircuitsByYear
C21_Witness ==
    /\ st.pc = "derived"
    /\ st.by = "getCircuitsByYear"
    /\ Len(st.meetings) = 3
    /\ Len(st.circuits) = 2
    /\ \E i, j \in 1..3 : /\ i < j
                          /\ st.meetings[i].circuit_key = st.meetings[j].circuit_key
                          /\ st.meetings[i].date_start # st.meetings[j].date_start

\* C22: the circuit list derived for a year keeps the circuits in the order
\* of their first occurrence in the meetings list, whatever that order is.
C22_FirstOccurrenceOrder ==
    (st.pc = "derived" /\ st.by = "getCircuitsByYear") =>
        \A r, q \in 1..Len(st.circuits) :
            r < q => FirstMeetingOf(st.meetings, st.circuits[r].circuit_key)
                       < FirstMeetingOf(st.meetings, st.circuits[q].circuit_key)

\* C30: for the same upstream responses the monolithic and the modular
\* service return equal results, including the content and the order of the
\* circuit list: the circuits field the monolithic getSeasonStats derives
\* from a meetings list is the list the modular getSeasonStats takes from
\* getCircuitsByYear for those meetings.
C30_ServicesAgree ==
    (st.pc = "derived" /\ st.by = "getSeasonStats") =>
        st.circuits = circuitsByYear(st.meetings)


-----------------------------------------------------------------------------
(* SpecConstructors: Step 7 of calculateStandings over rosters that carry    *)
(* the team colour. The roster is drawn from the bounded rosters, one race   *)
(* is classified, and the constructor standings are built from the totals.   *)

\* team_colour of a driver record: a hex string, or the empty string
Colours == {"", "FF0000"}
LineupNumbers == 1..MaxLineup

\* drivers?session_key=K with the colour: driver numbers unique in a session
ColouredRosters ==
    {r \in SeqsUpTo([driver_number : LineupNumbers, team_name : Teams,
                     team_colour : Colours], MaxLineup) :
        \A i, j \in DOMAIN r : i # j => r[i].driver_number # r[j].driver_number}

\* position?session_key=K of one race: the classified drivers, first to last
Classifications ==
    {[i \in DOMAIN o |-> [driver_number |-> o[i], position |-> i]] :
        o \in {q \in SeqsUpTo(LineupNumbers, MaxFinishers) :
                 \A i, j \in DOMAIN q : i # j => q[i] # q[j]}}

InitConstructors ==
    /\ now = StartTime
    /\ ticks = 0
    /\ cache = [k \in SeasonKeys |-> None]
    /\ caller = [c \in Callers |-> Idle]
    /\ invoked = 0
    /\ serial = 0
    /\ resolvedAt = [k \in CacheKeys |-> None]
    /\ retryDue = [k \in CacheKeys |-> FALSE]
    /\ last = NoEvent
    /\ lastApiCall = 0
    /\ limiter = [c \in Callers |-> Idle]
    /\ dispatched = <<>>
    /\ upstream = NoEvent
    /\ \E allDrivers \in ColouredRosters, positions \in Classifications :
          st = [pc |-> "roster", allDrivers |-> allDrivers, positions |-> positions,
                constructors |-> <<>>]

\* Steps 4 to 7 for one completed race: the totals, then the constructors
buildConstructors ==
    /\ st.pc = "roster"
    /\ st' = [st EXCEPT
          !.pc = "built",
          !.constructors =
              constructorStandings(st.allDrivers,
                  ProcessPositions(st.allDrivers, InitialTotals(st.allDrivers),
                                   st.positions))]
    /\ UNCHANGED <<now, ticks, cache, cacheVars, rateVars, upstream>>

NextConstructors == buildConstructors
SpecConstructors == InitConstructors /\ [][NextConstructors]_vars

\* index in the roster of the first driver of a team
FirstOfTeam(allDrivers, team) ==
    CHOOSE i \in 1..Len(allDrivers) :
        /\ allDrivers[i].team_name = team
        /\ \A j \in 1..(i - 1) : allDrivers[j].team_name # team

\* the grouping of C23: one constructor per team name of the roster, each with
\* exactly the roster drivers of that team in roster order, and constructors
\* with equal points and equal wins in the order their teams first appear
GroupedByTeam ==
    LET cs == st.constructors
        teamsOf == {st.allDrivers[i].team_name : i \in 1..Len(st.allDrivers)} IN
    /\ Len(cs) = Cardinality(teamsOf)
    /\ {cs[k].name : k \in 1..Len(cs)} = teamsOf
    /\ \A k \in 1..Len(cs) :
          cs[k].drivers = SelectSeq(st.allDrivers, LAMBDA d : d.team_name = cs[k].name)
    /\ \A i, j \in 1..Len(cs) :
          (i < j /\ cs[i].points = cs[j].points /\ cs[i].wins = cs[j].wins)
              => FirstOfTeam(st.allDrivers, cs[i].name)
                   < FirstOfTeam(st.allDrivers, cs[j].name)

\* C23 (amended): constructors are grouped by team_name in first-appearance
\* order, each lists exactly its roster drivers in roster order, ties on
\* points and wins keep first-appearance order, and the colour is the
\* team_colour of the first listed driver when that is not empty, '000000'
\* otherwise.
C23_ConstructorsGrouped ==
    st.pc = "built" =>
      /\ GroupedByTeam
      /\ \A k \in 1..Len(st.constructors) :
            st.constructors[k].colour =
              IF st.constructors[k].drivers[1].team_colour # ""
                THEN st.constructors[k].drivers[1].team_colour
                ELSE "000000"

\* C23 witness: teams interleaved in the roster (X, Y, X), the two drivers of
\* the first team with different colours, and the two constructors tied
C23_Witness ==
    /\ st.pc = "built"
    /\ Len(st.allDrivers) = 3
    /\ st.allDrivers[1].team_name = st.allDrivers[3].team_name
    /\ st.allDrivers[1].team_name # st.allDrivers[2].team_name
    /\ st.allDrivers[1].team_colour = "FF0000"
    /\ st.allDrivers[3].team_colour = ""
    /\ Len(st.constructors) = 2
    /\ st.constructors[1].points = st.constructors[2].points
    /\ st.constructors[1].wins = st.constructors[2].wins
    /\ st.constructors[1].colour = "FF0000"

\* C23 as stated: every constructor's colour is the team_colour of the first
\* driver it lists.
C23_ColourOfFirstDriver ==
    st.pc = "built" =>
      /\ GroupedByTeam
      /\ \A k \in 1..Len(st.constructors) :
            st.constructors[k].colour = st.constructors[k].drivers[1].team_colour

============================================================================
